---- MODULE Spec2Model ----
(***************************************************************************)
(* A model of src/App.tsx, the voice-coach controller: the React state,    *)
(* the refs, one record per session started by connectToGemini, the Web    *)
(* Audio objects each session creates, and the message handlers that the   *)
(* transport calls back.  Every action is one run-to-completion task of    *)
(* the browser's event loop; an `await` splits a handler into two actions. *)
(***************************************************************************)
EXTENDS Integers, Sequences, FiniteSets, TLC

\* ---------------------------------------------------------------- bounds
MaxSessions == 2   \* sessions started by clicks on the mic button
MaxChunks == 2     \* audio chunks delivered over all sessions
MaxTime == 2       \* ticks of each output context's currentTime
MaxDur == 2        \* longest decoded buffer.duration, in ticks
MaxHistory == 2    \* entries of the conversation history
MaxBatch == 2      \* function calls in one toolCall event
MaxToolSessions == 1  \* sessions started while the server sends tool calls
MaxFrames == 3     \* frames the microphone delivers over all sessions

\* A ref that holds null (useRef(null)); sessions and chunks count from 1.
NULL == 0

Sessions == 1..MaxSessions
Chunks == 1..MaxChunks
Durations == 1..MaxDur

\* ------------------------------------------------------------- JS values
\* A property that is absent from an object reads as undefined.
Undefined == "undefined"

\* JavaScript truthiness of a string-or-undefined value: `if (x)`.
Truthy(x) == x # Undefined /\ x # ""

\* An optional object (feedback, args.feedback) is <<>> when null/absent and
\* <<obj>> when present: every object, even an empty one, is truthy.
TruthyObj(o) == o # <<>>

Max(a, b) == IF a >= b THEN a ELSE b

\* a.indexOf(x) > -1
InQueue(q, x) == \E i \in 1..Len(q) : q[i] = x

\* Mutant: onended leaves the queue as it is.
RemoveNothing(q, x) == q

\* idx = a.indexOf(x); if (idx > -1) a.splice(idx, 1)
RemoveFirst(q, x) ==
  IF ~InQueue(q, x) THEN q
  ELSE LET idx == CHOOSE i \in 1..Len(q) :
                    q[i] = x /\ \A j \in 1..(i - 1) : q[j] # x
       IN  SubSeq(q, 1, idx - 1) \o SubSeq(q, idx + 1, Len(q))

\* ---------------------------------------------------------------- inputs
PartialTexts == {"h", "he"}
ModelTexts == {"m"}

F1 == [overall_score |-> 7, strengths |-> "s"]
F2 == [short_summary |-> "x"]

\* The args objects a function call may carry.
ArgChoices ==
  { [center_panel_question |-> "Q1", status_message |-> Undefined, feedback |-> <<>>],
    [center_panel_question |-> "Q2", status_message |-> "S1", feedback |-> <<F1>>],
    [center_panel_question |-> "", status_message |-> Undefined, feedback |-> <<F2>>] }

\* A batch of function calls; the server gives the calls of a batch distinct
\* ids, here the call's position in the batch.
CallShapes ==
  [name : {"update_ui"}, args : ArgChoices]
    \cup { [name |-> "other",
            args |-> [center_panel_question |-> "Q1", status_message |-> "S1",
                      feedback |-> <<F1>>]] }
BatchesOfLen(n) ==
  { [i \in 1..n |-> [id |-> i, name |-> f[i].name, args |-> f[i].args]] :
      f \in [1..n -> CallShapes] }
ToolBatches == UNION { BatchesOfLen(n) : n \in 1..MaxBatch }

NoMsg ==
  [toolCall |-> FALSE, calls |-> <<>>, audio |-> 0, outText |-> "",
   inText |-> "", turnComplete |-> FALSE]

\* Messages of one kind each, and the mixed ones the handler also accepts.
ToolMsgs == { [NoMsg EXCEPT !.toolCall = TRUE, !.calls = b] : b \in ToolBatches }
AudioMsgs == { [NoMsg EXCEPT !.audio = d] : d \in Durations }
TranscriptMsgs ==
  ({ [NoMsg EXCEPT !.outText = o] : o \in ModelTexts }
     \cup { [NoMsg EXCEPT !.inText = i, !.turnComplete = tc] :
              i \in PartialTexts \cup {""}, tc \in BOOLEAN })
    \ {NoMsg}
MixedMsgs ==
  { [NoMsg EXCEPT !.audio = 1, !.outText = o, !.inText = "he", !.turnComplete = TRUE] :
      o \in ModelTexts }

\* ----------------------------------------------------------------- state
VARIABLES
  apiKey,         \* process.env.API_KEY is set
  active,         \* useState(false)
  history,        \* useState<Message[]>([])
  centerPanel,    \* useState({question, status, transcript})
  feedback,       \* useState<any>(null)
  sessionRef,     \* useRef<any>(null): the session promise last created
  audio,          \* the audio refs and the Web Audio objects behind them
  phase,          \* per session: where its connection stands
  closure,        \* per session: centerPanel.transcript its callbacks closed over
  closeRequested, \* per session: a .then(s => s.close()) waits for the promise
  handlers,       \* per chunk: the onmessage run suspended in decodeAudioData
  schedOrder,     \* chunks in the order source.start() was called
  toolResp,       \* the last sendToolResponse call
  ev,             \* the task that ran last
  frame,          \* the last sendRealtimeInput call and what became of it
  lastPartial,    \* last input transcript handled since the last turnComplete
  tcSince         \* turnCompletes handled since the last input transcript

vars ==
  <<apiKey, active, history, centerPanel, feedback, sessionRef, audio, phase,
    closure, closeRequested, handlers, schedOrder, toolResp, ev, frame,
    lastPartial, tcSince>>

NoSource == [st |-> "none", ctx |-> NULL, start |-> 0, dur |-> 0]
NoHandler == [sess |-> NULL, ctx |-> NULL, msg |-> NoMsg]
\* No frame captured yet: nothing sent, no callback waiting on a promise.
NoFrame ==
  [sess |-> NULL, outcome |-> "none", captured |-> 0, sends |-> <<>>,
   thens |-> [s \in Sessions |-> <<>>]]

\* The record of the task that ran last: which handler, for which session,
\* and what the message it handled asked for.
Event(op, s) ==
  [op |-> op, sess |-> s, again |-> FALSE, tc |-> FALSE, commit |-> "",
   toolCall |-> FALSE, calls |-> <<>>, out |-> "", inp |-> ""]

Init ==
  /\ apiKey \in BOOLEAN
  /\ active = FALSE
  /\ history = <<>>
  /\ centerPanel =
       [question |-> "Ready to start?", status |-> "Click the mic to begin",
        transcript |-> ""]
  /\ feedback = <<>>
  /\ sessionRef = NULL
  /\ audio =
       [inputAudioContextRef |-> NULL, outputAudioContextRef |-> NULL,
        inputSourceRef |-> NULL, processorRef |-> NULL,
        nextStartTimeRef |-> 0, audioQueueRef |-> <<>>,
        inCtx |-> [s \in Sessions |-> "none"],
        outCtx |-> [s \in Sessions |-> "none"],
        currentTime |-> [s \in Sessions |-> 0],
        inSrc |-> [s \in Sessions |-> "none"],
        proc |-> [s \in Sessions |-> "none"],
        source |-> [c \in Chunks |-> NoSource]]
  /\ phase = [s \in Sessions |-> "none"]
  /\ closure = [s \in Sessions |-> ""]
  /\ closeRequested = [s \in Sessions |-> FALSE]
  /\ handlers = [c \in Chunks |-> NoHandler]
  /\ schedOrder = <<>>
  /\ toolResp = [sess |-> NULL, functionResponses |-> <<>>, msgs |-> <<>>]
  /\ ev = Event("init", NULL)
  /\ frame = NoFrame
  /\ lastPartial = ""
  /\ tcSince = 0

\* --------------------------------------------------------------- cleanup
\* cleanup(): release what the refs point at, in the order of the code, and
\* null the refs; stop and forget every queued playback source.
ReleaseRefs(a) ==
  LET a1 == IF a.processorRef # NULL
              THEN [a EXCEPT !.proc[a.processorRef] = "disconnected",
                             !.processorRef = NULL]
              ELSE a
      a2 == IF a1.inputSourceRef # NULL
              THEN [a1 EXCEPT !.inSrc[a1.inputSourceRef] = "disconnected",
                              !.inputSourceRef = NULL]
              ELSE a1
      a3 == IF a2.inputAudioContextRef # NULL
              THEN [a2 EXCEPT !.inCtx[a2.inputAudioContextRef] = "closed",
                              !.inputAudioContextRef = NULL]
              ELSE a2
  IN  IF a3.outputAudioContextRef # NULL
        THEN [a3 EXCEPT !.outCtx[a3.outputAudioContextRef] = "closed",
                        !.outputAudioContextRef = NULL]
        ELSE a3

\* audioQueueRef.current.forEach(s => s.stop())
StopSources(a) ==
  [a EXCEPT !.source = [c \in Chunks |->
                          IF InQueue(a.audioQueueRef, c)
                            THEN [a.source[c] EXCEPT !.st = "stopped"]
                            ELSE a.source[c]]]

\* Mutant: cleanup rewinds the playback cursor for the next session.
CleanupRewinds(a) ==
  [StopSources(ReleaseRefs(a)) EXCEPT !.audioQueueRef = <<>>,
                                      !.nextStartTimeRef = 0]

\* Mutant: cleanup stops the sources but keeps the queue.
CleanupKeepsQueue(a) == StopSources(ReleaseRefs(a))

Cleanup(a) == [StopSources(ReleaseRefs(a)) EXCEPT !.audioQueueRef = <<>>]

\* What makes a cleanup call raise: stop() on a source that was never
\* started, or close() on a context that is closed already.
CleanupRaises(a) ==
  \/ \E c \in Chunks : InQueue(a.audioQueueRef, c) /\ a.source[c].st = "none"
  \/ a.inputAudioContextRef # NULL /\ a.inCtx[a.inputAudioContextRef] = "closed"
  \/ a.outputAudioContextRef # NULL /\ a.outCtx[a.outputAudioContextRef] = "closed"

\* ------------------------------------------------------------- lifecycle
Started(s) == phase[s] # "none"

\* The session a new connectToGemini call creates: the next unused one.
IsNext(s) == phase[s] = "none" /\ \A t \in Sessions : t < s => Started(t)

CleanupOps == {"onclose", "onerror"}

\* Mutant: without an API key the audio contexts are created all the same.
ConnectNoKeyOpens ==
  /\ ~active
  /\ ~apiKey
  /\ audio' = [audio EXCEPT !.inputAudioContextRef = 1,
                            !.outputAudioContextRef = 1,
                            !.inCtx[1] = "running",
                            !.outCtx[1] = "running"]
  /\ ev' = Event("alert-nokey", NULL)
  /\ UNCHANGED <<frame, apiKey, active, history, centerPanel, feedback,
                 sessionRef, phase, closure, closeRequested, handlers,
                 schedOrder, toolResp, lastPartial, tcSince>>

\* The mic button with active false and no API key: alert and return.
ConnectNoKey ==
  /\ ~active
  /\ ~apiKey
  /\ ev' = Event("alert-nokey", NULL)
  /\ UNCHANGED <<frame, apiKey, active, history, centerPanel, feedback, sessionRef,
                 audio, phase, closure, closeRequested, handlers, schedOrder,
                 toolResp, lastPartial, tcSince>>

\* connectToGemini up to `await getUserMedia`: both audio contexts are
\* created and stored in the refs; the callbacks defined later in this call
\* close over this render's centerPanel.
ConnectToGemini(s) ==
  /\ ~active
  /\ apiKey
  /\ IsNext(s)
  /\ audio' = [audio EXCEPT !.inputAudioContextRef = s,
                            !.outputAudioContextRef = s,
                            !.inCtx[s] = "running",
                            !.outCtx[s] = "running",
                            !.currentTime[s] = 0]
  /\ phase' = [phase EXCEPT ![s] = "awaitMedia"]
  /\ closure' = [closure EXCEPT ![s] = centerPanel.transcript]
  /\ ev' = Event("connectToGemini", s)
  /\ UNCHANGED <<frame, apiKey, active, history, centerPanel, feedback, sessionRef,
                 closeRequested, handlers, schedOrder, toolResp, lastPartial,
                 tcSince>>

\* getUserMedia resolves: ai.live.connect is called and its promise stored.
MediaGranted(s) ==
  /\ phase[s] = "awaitMedia"
  /\ phase' = [phase EXCEPT ![s] = "connecting"]
  /\ sessionRef' = s
  /\ ev' = Event("connect", s)
  /\ UNCHANGED <<frame, apiKey, active, history, centerPanel, feedback, audio, closure,
                 closeRequested, handlers, schedOrder, toolResp, lastPartial,
                 tcSince>>

\* getUserMedia rejects: the catch block logs and alerts, nothing else.
MediaDenied(s) ==
  /\ phase[s] = "awaitMedia"
  /\ phase' = [phase EXCEPT ![s] = "failed"]
  /\ ev' = Event("alert-failed", s)
  /\ UNCHANGED <<frame, apiKey, active, history, centerPanel, feedback, sessionRef,
                 audio, closure, closeRequested, handlers, schedOrder, toolResp,
                 lastPartial, tcSince>>

\* Mutant: the newest frame overtakes the frames sent before it.
InvokeSendFirst(sends, f) == <<f>> \o sends

\* session.sendRealtimeInput is invoked: the calls made so far, in order.
InvokeSend(sends, f) == Append(sends, f)

\* The callbacks that waited on the session promise run, in the order they
\* were registered, when it resolves.
RECURSIVE RunThens(_, _, _)
RunThens(sends, s, ns) ==
  IF ns = <<>> THEN sends
  ELSE RunThens(InvokeSend(sends, [sess |-> s, n |-> Head(ns)]), s, Tail(ns))

\* The session promise of session s has resolved: ai.live.connect resolves
\* it in the task that calls onopen.
SessionResolved(s) == phase[s] \in {"open", "closing", "errored", "closed"}

\* onopen: the capture nodes are created unless the input context ref is
\* null.  A close() queued on the session promise runs once it resolves.
OnOpen(s) ==
  /\ phase[s] = "connecting"
  /\ active' = TRUE
  /\ centerPanel' = [centerPanel EXCEPT !.status = "Connected. Listening..."]
  /\ audio' = IF audio.inputAudioContextRef = NULL
                THEN audio
                ELSE [audio EXCEPT !.inputSourceRef = s,
                                   !.processorRef = s,
                                   !.inSrc[s] = "connected",
                                   !.proc[s] = "connected"]
  /\ phase' = [phase EXCEPT ![s] = IF closeRequested[s] THEN "closing" ELSE "open"]
  /\ closeRequested' = [closeRequested EXCEPT ![s] = FALSE]
  /\ frame' = [frame EXCEPT !.sends = RunThens(@, s, frame.thens[s]),
                            !.thens[s] = <<>>]
  /\ ev' = Event("onopen", s)
  /\ UNCHANGED <<apiKey, history, feedback, sessionRef, closure, handlers,
                 schedOrder, toolResp, lastPartial, tcSince>>

\* The status text each callback sets.
ClosedStatus == "Session Ended"

\* Mutant: onerror sets the status text of onclose.
ErrorStatusAsClosed == "Session Ended"

ErrorStatus == "Error connecting"

\* onclose: the transport has closed the connection, after a close() call,
\* on its own, or after the failure it reported through onerror.
OnClose(s) ==
  /\ phase[s] \in {"open", "closing", "errored"}
  /\ phase' = [phase EXCEPT ![s] = "closed"]
  /\ active' = FALSE
  /\ centerPanel' = [centerPanel EXCEPT !.status = ClosedStatus]
  /\ audio' = Cleanup(audio)
  /\ ev' = [Event("onclose", s) EXCEPT !.again = ev.op \in CleanupOps]
  /\ UNCHANGED <<frame, apiKey, history, feedback, sessionRef, closure, closeRequested,
                 handlers, schedOrder, toolResp, lastPartial, tcSince>>

\* onerror: the transport reports a connection it has failed; it delivers
\* no message on it any more, and onclose follows.  The handler itself
\* neither calls close() nor clears sessionRef.
OnError(s) ==
  /\ phase[s] \in {"open", "closing"}
  /\ phase' = [phase EXCEPT ![s] = "errored"]
  /\ active' = FALSE
  /\ centerPanel' = [centerPanel EXCEPT !.status = ErrorStatus]
  /\ audio' = Cleanup(audio)
  /\ ev' = [Event("onerror", s) EXCEPT !.again = ev.op \in CleanupOps]
  /\ UNCHANGED <<frame, apiKey, history, feedback, sessionRef, closure, closeRequested,
                 handlers, schedOrder, toolResp, lastPartial, tcSince>>

\* handleEndSession: sessionRef.current?.then(s => s.close()); setActive(false)
HandleEndSession ==
  /\ active
  /\ active' = FALSE
  /\ phase' = IF sessionRef # NULL /\ phase[sessionRef] = "open"
                THEN [phase EXCEPT ![sessionRef] = "closing"]
                ELSE phase
  /\ closeRequested' = IF sessionRef # NULL /\ phase[sessionRef] = "connecting"
                         THEN [closeRequested EXCEPT ![sessionRef] = TRUE]
                         ELSE closeRequested
  /\ ev' = Event("handleEndSession", sessionRef)
  /\ UNCHANGED <<frame, apiKey, history, centerPanel, feedback, sessionRef, audio,
                 closure, handlers, schedOrder, toolResp, lastPartial, tcSince>>

\* ---------------------------------------------------------------- capture
\* Mutant: every frame handed to the session reaches the server.
FrameOutcomeAlways(ph) == "delivered"

\* What becomes of sessionPromise.then(session => session.sendRealtimeInput):
\* the callback waits while the promise is pending and runs once the session
\* exists; a send on a connection that is closing or closed is discarded by
\* the socket without an error.
FrameOutcome(ph) ==
  IF ph = "open" THEN "delivered"
  ELSE IF ph \in {"awaitMedia", "connecting"} THEN "queued"
  ELSE "dropped"

\* onaudioprocess of the processor that onopen of session s created: the
\* frame goes to the session promise of the same connectToGemini call.
OnAudioProcess(s) ==
  /\ audio.proc[s] = "connected"
  /\ audio.inCtx[s] = "running"
  /\ frame.captured < MaxFrames
  /\ LET n == frame.captured + 1
     IN  frame' =
           IF SessionResolved(s)
             THEN [frame EXCEPT !.sess = s,
                                !.outcome = FrameOutcome(phase[s]),
                                !.captured = n,
                                !.sends = InvokeSend(@, [sess |-> s, n |-> n])]
             ELSE [frame EXCEPT !.sess = s,
                                !.outcome = FrameOutcome(phase[s]),
                                !.captured = n,
                                !.thens[s] = Append(@, n)]
  /\ ev' = Event("onaudioprocess", s)
  /\ UNCHANGED <<apiKey, active, history, centerPanel, feedback, sessionRef,
                 audio, phase, closure, closeRequested, handlers, schedOrder,
                 toolResp, lastPartial, tcSince>>

\* -------------------------------------------------------- output timeline
\* A running output context's currentTime advances.
Tick(s) ==
  /\ audio.outCtx[s] = "running"
  /\ audio.currentTime[s] < MaxTime
  /\ audio' = [audio EXCEPT !.currentTime[s] = @ + 1]
  /\ UNCHANGED <<ev, frame, apiKey, active, history, centerPanel, feedback, sessionRef,
                 phase, closure, closeRequested, handlers, schedOrder, toolResp,
                 lastPartial, tcSince>>

\* source.onended: the source played to its end; drop it from the queue.
OnEnded(c) ==
  /\ audio.source[c].st = "started"
  /\ audio.outCtx[audio.source[c].ctx] = "running"
  /\ audio.currentTime[audio.source[c].ctx]
       >= audio.source[c].start + audio.source[c].dur
  /\ audio' = [audio EXCEPT !.source[c].st = "ended",
                            !.audioQueueRef = RemoveFirst(@, c)]
  /\ ev' = Event("onended", audio.source[c].ctx)
  /\ UNCHANGED <<frame, apiKey, active, history, centerPanel, feedback, sessionRef,
                 phase, closure, closeRequested, handlers, schedOrder, toolResp,
                 lastPartial, tcSince>>

\* ------------------------------------------------------ onmessage: tools
\* Mutant: the acknowledgement replaces the list instead of joining it.
UpdateUiSingleAck(call, ui) ==
  IF call.name = "update_ui"
    THEN [question |-> IF Truthy(call.args.center_panel_question)
                         THEN call.args.center_panel_question
                         ELSE ui.question,
          status |-> IF Truthy(call.args.status_message)
                       THEN call.args.status_message
                       ELSE ui.status,
          feedback |-> IF TruthyObj(call.args.feedback)
                         THEN call.args.feedback
                         ELSE ui.feedback,
          responses |-> <<[id |-> call.id, name |-> call.name,
                           result |-> "success"]>>]
    ELSE ui

\* Mutant: a new feedback object is merged into the snapshot, field by field.
MergeFeedback(old, new) ==
  IF old = <<>> THEN new
  ELSE << [k \in DOMAIN old[1] \cup DOMAIN new[1] |->
             IF k \in DOMAIN new[1] THEN new[1][k] ELSE old[1][k]] >>

UpdateUiMergesFeedback(call, ui) ==
  IF call.name = "update_ui"
    THEN [question |-> IF Truthy(call.args.center_panel_question)
                         THEN call.args.center_panel_question
                         ELSE ui.question,
          status |-> IF Truthy(call.args.status_message)
                       THEN call.args.status_message
                       ELSE ui.status,
          feedback |-> IF TruthyObj(call.args.feedback)
                         THEN MergeFeedback(ui.feedback, call.args.feedback)
                         ELSE ui.feedback,
          responses |-> Append(ui.responses,
                               [id |-> call.id, name |-> call.name,
                                result |-> "success"])]
    ELSE ui

\* One iteration of `for (const call of calls)`: an update_ui call applies
\* its truthy fields and pushes its acknowledgement; any other call is skipped.
UpdateUi(call, ui) ==
  IF call.name = "update_ui"
    THEN [question |-> IF Truthy(call.args.center_panel_question)
                         THEN call.args.center_panel_question
                         ELSE ui.question,
          status |-> IF Truthy(call.args.status_message)
                       THEN call.args.status_message
                       ELSE ui.status,
          feedback |-> IF TruthyObj(call.args.feedback)
                         THEN call.args.feedback
                         ELSE ui.feedback,
          responses |-> Append(ui.responses,
                               [id |-> call.id, name |-> call.name,
                                result |-> "success"])]
    ELSE ui

RECURSIVE ProcessCalls(_, _, _)
ProcessCalls(calls, i, ui) ==
  IF i > Len(calls) THEN ui
  ELSE ProcessCalls(calls, i + 1, UpdateUi(calls[i], ui))

\* Mutant: one tool response is sent per acknowledgement.
SendToolResponsePerCall(responses) ==
  [i \in 1..Len(responses) |-> [functionResponses |-> <<responses[i]>>]]

\* sessionPromise.then(session => session.sendToolResponse({functionResponses:
\* responses})), after the loop: the messages sent for one toolCall event.
SendToolResponse(responses) == <<[functionResponses |-> responses]>>

\* The toolCall block of onmessage applied to the UI state.
ToolCalls(m, cp, fb) ==
  ProcessCalls(m.calls, 1,
               [question |-> cp.question, status |-> cp.status,
                feedback |-> fb, responses |-> <<>>])

\* ------------------------------------------------ onmessage: transcripts
ModelEntry(text) == [role |-> "model", text |-> text]
UserEntry(text) == [role |-> "user", text |-> text]

\* The turnComplete test reads centerPanel.transcript of the render in
\* which connectToGemini ran: the value the session's callbacks closed over.
CommitGuard(s, m) == m.turnComplete /\ Truthy(closure[s])

\* Mutant: the model entry goes to the front of the history.
AppendModelFirst(hist, text) == <<ModelEntry(text)>> \o hist

\* Mutant: a model entry that follows a model entry is merged into it.
AppendModelMerged(hist, text) ==
  IF hist # <<>> /\ hist[Len(hist)].role = "model"
    THEN [hist EXCEPT ![Len(hist)] = ModelEntry(text)]
    ELSE Append(hist, ModelEntry(text))

\* setHistory(prev => [...prev, {role: 'model', text, ...}])
AppendModel(hist, text) == Append(hist, ModelEntry(text))

\* Mutant: a partial transcript is kept only when the buffer is empty.
SetTranscriptIfEmpty(cp, text) ==
  IF cp.transcript = "" THEN [cp EXCEPT !.transcript = text] ELSE cp

\* setCenterPanel(prev => ({...prev, transcript: text}))
SetTranscript(cp, text) == [cp EXCEPT !.transcript = text]

\* The blocks after the audio block: output transcription, input
\* transcription, turnComplete commit; queued state updates apply in order.
Transcripts(s, m, hist, cp) ==
  LET h1 == IF Truthy(m.outText) THEN AppendModel(hist, m.outText) ELSE hist
      c1 == IF Truthy(m.inText) THEN SetTranscript(cp, m.inText) ELSE cp
  IN  IF CommitGuard(s, m)
        THEN [history |-> Append(h1, UserEntry(closure[s])),
              centerPanel |-> [c1 EXCEPT !.transcript = ""]]
        ELSE [history |-> h1, centerPanel |-> c1]

\* Bookkeeping of the transcript events handled, for the properties below.
LastPartialAfter(m) ==
  IF m.turnComplete THEN ""
  ELSE IF Truthy(m.inText) THEN m.inText ELSE lastPartial

TcSinceAfter(m) ==
  IF Truthy(m.inText) THEN (IF m.turnComplete THEN 1 ELSE 0)
  ELSE IF m.turnComplete THEN (IF tcSince < 2 THEN tcSince + 1 ELSE 2)
  ELSE tcSince

\* The text a turnComplete in message m is due to commit: the transcript of
\* the same message, else the last partial handled; "" without turnComplete.
DueCommit(m) ==
  IF ~m.turnComplete THEN ""
  ELSE IF Truthy(m.inText) THEN m.inText ELSE lastPartial

\* ------------------------------------------------------ onmessage: audio
\* Mutant: the chunk starts at the context's current time.
StartTimeNow(now, cursor) == now

\* const startTime = Math.max(now, nextStartTimeRef.current)
StartTime(now, cursor) == Max(now, cursor)

\* nextStartTimeRef.current = startTime + buffer.duration
NextStartTime(startTime, duration) == startTime + duration

\* The code after `await decodeAudioData`: create the source on the context
\* captured before the await, start it, advance the cursor, queue it.
ScheduleChunk(a, c, ctx, duration) ==
  LET startTime == StartTime(a.currentTime[ctx], a.nextStartTimeRef)
  IN  [a EXCEPT !.source[c] = [st |-> "started", ctx |-> ctx,
                               start |-> startTime, dur |-> duration],
                !.nextStartTimeRef = NextStartTime(startTime, duration),
                !.audioQueueRef = Append(@, c)]

\* The chunk an arriving audio part gets: chunks are numbered by arrival.
IsNextChunk(c) ==
  /\ handlers[c] = NoHandler /\ audio.source[c].st = "none"
  /\ \A d \in Chunks :
       d < c => (handlers[d] # NoHandler \/ audio.source[d].st # "none")

\* Whether the handler reaches `await decodeAudioData` for message m.
HasAudio(m) == m.audio > 0 /\ audio.outputAudioContextRef # NULL

\* onmessage without a decodable audio part: runs to completion.
OnMessage(s, m) ==
  /\ phase[s] = "open"
  /\ ~HasAudio(m)
  /\ LET ui == ToolCalls(m, centerPanel, feedback)
         tr == Transcripts(s, m, history,
                           [centerPanel EXCEPT !.question = ui.question,
                                               !.status = ui.status])
     IN  /\ Len(tr.history) <= MaxHistory
         /\ history' = tr.history
         /\ centerPanel' = tr.centerPanel
         /\ feedback' = ui.feedback
         /\ toolResp' = IF m.toolCall
                          THEN [sess |-> s, functionResponses |-> ui.responses,
                                msgs |-> SendToolResponse(ui.responses)]
                          ELSE toolResp
  /\ lastPartial' = LastPartialAfter(m)
  /\ tcSince' = TcSinceAfter(m)
  /\ ev' = [Event("onmessage", s) EXCEPT !.tc = m.turnComplete,
                                         !.commit = DueCommit(m),
                                         !.out = m.outText,
                                         !.inp = m.inText,
                                         !.toolCall = m.toolCall,
                                         !.calls = m.calls]
  /\ UNCHANGED <<frame, apiKey, active, sessionRef, audio, phase, closure,
                 closeRequested, handlers, schedOrder>>

\* onmessage with an audio part, up to `await decodeAudioData`: the tool
\* calls are handled, the output context is captured, the run suspends.
OnAudioMessage(s, m, c) ==
  /\ phase[s] = "open"
  /\ HasAudio(m)
  /\ IsNextChunk(c)
  /\ LET ui == ToolCalls(m, centerPanel, feedback)
     IN  /\ centerPanel' = [centerPanel EXCEPT !.question = ui.question,
                                               !.status = ui.status]
         /\ feedback' = ui.feedback
         /\ toolResp' = IF m.toolCall
                          THEN [sess |-> s, functionResponses |-> ui.responses,
                                msgs |-> SendToolResponse(ui.responses)]
                          ELSE toolResp
  /\ handlers' = [handlers EXCEPT
                    ![c] = [sess |-> s, ctx |-> audio.outputAudioContextRef,
                            msg |-> m]]
  /\ ev' = [Event("onmessage-await", s) EXCEPT !.toolCall = m.toolCall,
                                               !.calls = m.calls]
  /\ UNCHANGED <<frame, apiKey, active, history, sessionRef, audio, phase, closure,
                 closeRequested, schedOrder, lastPartial, tcSince>>

\* decodeAudioData is not among the source files: its promise may resolve
\* at any later task, in any order with other pending decodes.
DecodeResolves(c) == handlers[c] # NoHandler

\* The suspended onmessage run resumes: schedule the chunk, then the
\* transcript blocks of the same message.
DecodeDone(c) ==
  /\ DecodeResolves(c)
  /\ LET h == handlers[c]
         tr == Transcripts(h.sess, h.msg, history, centerPanel)
     IN  /\ Len(tr.history) <= MaxHistory
         /\ audio' = ScheduleChunk(audio, c, h.ctx, h.msg.audio)
         /\ history' = tr.history
         /\ centerPanel' = tr.centerPanel
         /\ lastPartial' = LastPartialAfter(h.msg)
         /\ tcSince' = TcSinceAfter(h.msg)
         /\ ev' = [Event("onmessage-resume", h.sess) EXCEPT
                     !.tc = h.msg.turnComplete, !.commit = DueCommit(h.msg),
                     !.out = h.msg.outText, !.inp = h.msg.inText]
  /\ handlers' = [handlers EXCEPT ![c] = NoHandler]
  /\ schedOrder' = Append(schedOrder, c)
  /\ UNCHANGED <<frame, apiKey, active, feedback, sessionRef, phase, closure,
                 closeRequested, toolResp>>

\* ------------------------------------------------------------------ spec
\* Clicks on the mic button, the media prompt and the transport callbacks,
\* for the sessions of S.
Lifecycle(S) ==
  \/ ConnectNoKey
  \/ \E s \in S : ConnectToGemini(s)
  \/ \E s \in S : MediaGranted(s)
  \/ \E s \in S : MediaDenied(s)
  \/ \E s \in S : OnOpen(s)
  \/ \E s \in S : OnClose(s)
  \/ \E s \in S : OnError(s)
  \/ HandleEndSession

\* The playback pipeline: the server sends audio parts only.
Next ==
  \/ Lifecycle(Sessions)
  \/ \E s \in Sessions : Tick(s)
  \/ \E c \in Chunks : OnEnded(c)
  \/ \E s \in Sessions, m \in AudioMsgs : OnMessage(s, m)
  \/ \E s \in Sessions, m \in AudioMsgs, c \in Chunks : OnAudioMessage(s, m, c)
  \/ \E c \in Chunks : DecodeDone(c)

Spec == Init /\ [][Next]_vars

\* The transcript router: the server sends transcripts and turnComplete,
\* alone or beside an audio part.
NextTranscript ==
  \/ Lifecycle(Sessions)
  \/ \E s \in Sessions, m \in TranscriptMsgs \cup MixedMsgs : OnMessage(s, m)
  \/ \E s \in Sessions, m \in MixedMsgs, c \in Chunks : OnAudioMessage(s, m, c)
  \/ \E c \in Chunks : DecodeDone(c)

SpecTranscript == Init /\ [][NextTranscript]_vars

\* The tool router: the server sends toolCall events only.
NextTools ==
  \/ Lifecycle(1..MaxToolSessions)
  \/ \E s \in Sessions, m \in ToolMsgs : OnMessage(s, m)

SpecTools == Init /\ [][NextTools]_vars

\* The capture pipeline: the microphone delivers frames, the server is silent.
NextCapture ==
  \/ Lifecycle(Sessions)
  \/ \E s \in Sessions : OnAudioProcess(s)

SpecCapture == Init /\ [][NextCapture]_vars

\* ---------------------------------------------------------------- claims
IsUser(e) == e.role = "user"
UserEntries(h) == SelectSeq(h, IsUser)

\* C1: when a turnComplete is handled after one or more partial input
\* transcripts, exactly one user entry is appended to the history, its text
\* is the last partial, and the live transcript buffer is empty afterwards.
C1_TurnCompleteCommitsLastPartial ==
  [][(ev'.tc /\ ev'.commit # "")
       => /\ UserEntries(history') =
               Append(UserEntries(history), UserEntry(ev'.commit))
          /\ centerPanel'.transcript = ""]_vars

\* C2: a turnComplete handled when an earlier turnComplete has been handled
\* since the last input transcript appends no user entry to the history.
C2_SecondTurnCompleteAppendsNothing ==
  [][(ev'.tc /\ ev'.commit = "" /\ tcSince >= 1)
       => UserEntries(history') = UserEntries(history)]_vars

\* The chunks that were started on output context x, in scheduling order.
Src(c) == audio.source[c]
Scheduled(c) == Src(c).st # "none"

\* C3: of two chunks started on the same output context, the one scheduled
\* later starts no earlier than the end of the one scheduled before it.
C3_NoOverlap ==
  \A i, j \in 1..Len(schedOrder) :
    (i < j /\ Src(schedOrder[i]).ctx = Src(schedOrder[j]).ctx)
      => Src(schedOrder[j]).start
           >= Src(schedOrder[i]).start + Src(schedOrder[i]).dur

\* C3 witness: two chunks on one context, the second held back by the
\* cursor to the end of the first although the clock has not got there.
C3_Witness ==
  /\ Len(schedOrder) = 2
  /\ Src(schedOrder[1]).ctx = Src(schedOrder[2]).ctx
  /\ Src(schedOrder[2]).start = Src(schedOrder[1]).start + Src(schedOrder[1]).dur
  /\ Src(schedOrder[2]).start > audio.currentTime[Src(schedOrder[2]).ctx]
  /\ ev.op = "onmessage-resume"

\* C4: no step makes the playback cursor nextStartTimeRef smaller.
C4_CursorNeverRewinds ==
  [][audio'.nextStartTimeRef >= audio.nextStartTimeRef]_vars

\* C4 witness: the cursor has advanced, cleanup has run, and a new session
\* has begun with a fresh output context.
C4_Witness ==
  /\ audio.nextStartTimeRef > 0
  /\ ev.op = "connectToGemini"
  /\ \E s \in Sessions : phase[s] = "closed"

RefsNull(a) ==
  /\ a.processorRef = NULL
  /\ a.inputSourceRef = NULL
  /\ a.inputAudioContextRef = NULL
  /\ a.outputAudioContextRef = NULL

\* C5: from every reachable state, cleanup called twice in succession raises
\* on neither call, leaves audioQueueRef empty and the four refs null, and
\* its second call changes nothing.
C5_CleanupTwice ==
  LET once == Cleanup(audio)
      twice == Cleanup(once)
  IN  /\ ~CleanupRaises(audio)
      /\ ~CleanupRaises(once)
      /\ once.audioQueueRef = <<>> /\ RefsNull(once)
      /\ twice = once

\* C5 witness: onerror and onclose ran cleanup back to back, and the first
\* of the two calls stopped a chunk that was in flight.
C5_Witness ==
  /\ ev.again
  /\ \E c \in Chunks : Src(c).st = "stopped"
  /\ audio.audioQueueRef = <<>> /\ RefsNull(audio)

IsUpdateUi(call) == call.name = "update_ui"
HasQuestion(call) == IsUpdateUi(call) /\ Truthy(call.args.center_panel_question)
HasStatus(call) == IsUpdateUi(call) /\ Truthy(call.args.status_message)
HasFeedback(call) == IsUpdateUi(call) /\ TruthyObj(call.args.feedback)
Last(q) == q[Len(q)]

\* C6: after a toolCall event, the response sent holds one success entry per
\* update_ui call of the batch, in order, each with that call's id; and the
\* question, status and feedback are those of the last update_ui call that
\* gave one (a field no call gave keeps its value).
C6_BatchAcknowledged ==
  [][ev'.toolCall =>
       LET updates == SelectSeq(ev'.calls, IsUpdateUi)
           qs == SelectSeq(ev'.calls, HasQuestion)
           ss == SelectSeq(ev'.calls, HasStatus)
           fs == SelectSeq(ev'.calls, HasFeedback)
       IN  /\ toolResp'.sess = ev'.sess
           /\ toolResp'.functionResponses =
                [i \in 1..Len(updates) |->
                   [id |-> updates[i].id, name |-> "update_ui",
                    result |-> "success"]]
           /\ centerPanel'.question =
                IF qs = <<>> THEN centerPanel.question
                ELSE Last(qs).args.center_panel_question
           /\ centerPanel'.status =
                IF ss = <<>> THEN centerPanel.status
                ELSE Last(ss).args.status_message
           /\ feedback' =
                IF fs = <<>> THEN feedback ELSE Last(fs).args.feedback]_vars

\* C6 witness: a batch of two update_ui calls was handled; both effects show
\* and two acknowledgements, ids 1 and 2, went back.
C6_Witness ==
  /\ ev.toolCall
  /\ Len(ev.calls) = 2
  /\ \A i \in 1..2 : IsUpdateUi(ev.calls[i])
  /\ ev.calls[1].args.center_panel_question = "Q1"
  /\ ev.calls[2].args.center_panel_question = "Q2"
  /\ centerPanel.question = "Q2"
  /\ centerPanel.status = "S1"
  /\ feedback = <<F1>>
  /\ Len(toolResp.functionResponses) = 2
  /\ toolResp.functionResponses[1].id = 1
  /\ toolResp.functionResponses[2].id = 2

\* A session that has been started and whose connection is not closed yet.
Live(s) == phase[s] \in {"awaitMedia", "connecting", "open", "closing", "errored"}

\* C7: at most one session is live at any time.
C7_AtMostOneLiveSession == Cardinality({s \in Sessions : Live(s)}) <= 1

\* Everything session s created has been released.
Released(s) ==
  /\ audio.proc[s] # "connected"
  /\ audio.inSrc[s] # "connected"
  /\ audio.inCtx[s] = "closed"
  /\ audio.outCtx[s] = "closed"
  /\ \A c \in Chunks : Src(c).ctx = s => Src(c).st # "started"

\* C8: once the onclose or onerror callback of a session has run, the
\* capture nodes of that session are disconnected, its two audio contexts
\* are closed and none of its playback sources is still scheduled.
C8_ExitReleasesSession ==
  \A s \in Sessions : phase[s] \in {"closed", "errored"} => Released(s)

\* C9: a chunk is never started while a chunk that arrived before it is
\* still waiting to be scheduled.
C9_ScheduledInArrivalOrder ==
  \A c, d \in Chunks : (c < d /\ handlers[c] # NoHandler) => ~Scheduled(d)

C11_FailureLeavesNothing ==
  [][\A s \in Sessions :
       (phase[s] = "awaitMedia" /\ phase'[s] = "failed")
         => /\ ~active => ~active'
            /\ audio'.inCtx[s] # "running"
            /\ audio'.outCtx[s] # "running"
            /\ audio'.inputAudioContextRef # s
            /\ audio'.outputAudioContextRef # s
            /\ audio'.inputSourceRef # s /\ audio'.processorRef # s
            /\ sessionRef' # s]_vars

IsPrefix(a, b) == Len(a) <= Len(b) /\ SubSeq(b, 1, Len(a)) = a

\* C13: in every step the history before the step is a prefix of the
\* history after it.
C13_HistoryAppendOnly == [][IsPrefix(history, history')]_vars

\* C13 witness: a model entry and then a user entry were appended, across a
\* session that closed and a session that was started after it.
C13_Witness ==
  /\ Len(history) = 2
  /\ history[1].role = "model" /\ history[2].role = "user"
  /\ \E s \in Sessions : phase[s] = "closed"

\* C14: without an API key no connection attempt is ever made: no session is
\* started, no audio context exists, every ref is null and the application
\* state is the initial one.
C14_NoKeyNoAttempt ==
  ~apiKey
    => /\ \A s \in Sessions :
            /\ phase[s] = "none"
            /\ audio.inCtx[s] = "none" /\ audio.outCtx[s] = "none"
       /\ RefsNull(audio) /\ sessionRef = NULL
       /\ ~active /\ history = <<>> /\ feedback = <<>>
       /\ centerPanel =
            [question |-> "Ready to start?", status |-> "Click the mic to begin",
             transcript |-> ""]

\* C14 witness: the mic was clicked without an API key and the alert shown.
C14_Witness == ~apiKey /\ ev.op = "alert-nokey"

\* C15: after a toolCall event the feedback snapshot is exactly the feedback
\* object of the last update_ui call of the batch that carried one, with
\* that object's fields and no other; with no such call it is unchanged.
C15_FeedbackReplacedWholesale ==
  [][ev'.toolCall =>
       LET fs == SelectSeq(ev'.calls, HasFeedback)
       IN  IF fs = <<>> THEN feedback' = feedback
           ELSE /\ feedback' = Last(fs).args.feedback
                /\ DOMAIN feedback'[1] = DOMAIN Last(fs).args.feedback[1]]_vars

\* C15 witness: one call set the snapshot to F1 and the next one to F2;
\* the snapshot has the only field of F2.
C15_Witness ==
  /\ ev.toolCall
  /\ Len(ev.calls) = 2
  /\ HasFeedback(ev.calls[1]) /\ ev.calls[1].args.feedback = <<F1>>
  /\ HasFeedback(ev.calls[2]) /\ ev.calls[2].args.feedback = <<F2>>
  /\ feedback = <<F2>>
  /\ DOMAIN feedback[1] = {"short_summary"}

IsModel(e) == e.role = "model"
ModelEntries(h) == SelectSeq(h, IsModel)

\* C16: a message with a non-empty output transcript appends one model
\* entry with that text right after the entries the history had.
C16_OutputTranscriptAppendsEntry ==
  [][ev'.out # ""
       => /\ Len(history') > Len(history)
          /\ SubSeq(history', 1, Len(history) + 1) =
               Append(history, ModelEntry(ev'.out))
          /\ ModelEntries(history') =
               Append(ModelEntries(history), ModelEntry(ev'.out))]_vars

\* C16 witness: two output transcripts with the same text gave two entries.
C16_Witness ==
  /\ ev.out = "m"
  /\ history = <<ModelEntry("m"), ModelEntry("m")>>

\* C17: the first chunk scheduled on the output context of a session that
\* was started after another session was torn down starts at that
\* context's current time (taken with nothing in flight and no other
\* message handler waiting for its decode).
C17_FirstChunkStartsNow ==
  [][Len(schedOrder') = Len(schedOrder) + 1
       => LET c == schedOrder'[Len(schedOrder')]
              x == audio'.source[c].ctx
          IN  (/\ \A d \in Chunks : Scheduled(d) => Src(d).ctx # x
               /\ \E t \in Sessions : t < x /\ phase[t] \in {"closed", "errored"}
               /\ audio.audioQueueRef = <<>>
               /\ \A d \in Chunks \ {c} : handlers[d] = NoHandler)
                => audio'.source[c].start = audio.currentTime[x]]_vars

\* C18: a message handler that resumes from decoding after the cleanup of
\* its session has run starts no source and adds none to audioQueueRef.
C18_NoSourceAfterCleanup ==
  [][(ev'.op = "onmessage-resume" /\ phase[ev'.sess] \in {"closed", "errored"})
       => /\ audio'.audioQueueRef = audio.audioQueueRef
          /\ \A c \in Chunks :
               audio'.source[c].st = "started" => Src(c).st = "started"]_vars

\* C19: audioQueueRef holds, once each, exactly the chunks that were started
\* and have neither ended nor been stopped by cleanup.
C19_InFlightExact ==
  /\ \A c \in Chunks : InQueue(audio.audioQueueRef, c) <=> Src(c).st = "started"
  /\ \A i, j \in 1..Len(audio.audioQueueRef) :
       audio.audioQueueRef[i] = audio.audioQueueRef[j] => i = j

\* C19 witness: one chunk has played to its end and left the queue while
\* the chunk scheduled after it is still in it.
C19_Witness ==
  \E c, d \in Chunks :
    /\ Src(c).st = "ended" /\ Src(d).st = "started"
    /\ Src(c).ctx = Src(d).ctx
    /\ audio.audioQueueRef = <<d>>

C21_OneToolResponsePerEvent ==
  [][/\ ev'.toolCall =>
          LET updates == SelectSeq(ev'.calls, IsUpdateUi)
          IN  /\ toolResp'.sess = ev'.sess
              /\ Len(toolResp'.msgs) = 1
              /\ Len(toolResp'.msgs[1].functionResponses) = Len(updates)
              /\ \A i \in 1..Len(updates) :
                   /\ toolResp'.msgs[1].functionResponses[i].id = updates[i].id
                   /\ toolResp'.msgs[1].functionResponses[i].name = "update_ui"
     /\ ~ev'.toolCall => toolResp' = toolResp]_vars

\* C21 witness: a batch whose only call has another name was answered by
\* one response with no acknowledgement in it, after a batch that had one.
C21_Witness ==
  /\ ev.toolCall
  /\ Len(ev.calls) = 1 /\ ev.calls[1].name = "other"
  /\ toolResp.msgs = <<[functionResponses |-> <<>>]>>
  /\ feedback # <<>>

\* C22: the sendRealtimeInput calls made for the frames of one session are
\* in capture order, each captured frame is sent at most once, and a frame
\* is missing from the calls only while it waits on the session promise.
C22_FramesInCaptureOrder ==
  /\ \A i, j \in 1..Len(frame.sends) :
       (i < j /\ frame.sends[i].sess = frame.sends[j].sess)
         => frame.sends[i].n < frame.sends[j].n
  /\ \A n \in 1..frame.captured :
       \/ \E i \in 1..Len(frame.sends) : frame.sends[i].n = n
       \/ \E s \in Sessions : InQueue(frame.thens[s], n)

\* C22 witness: three frames were captured, at least two of them by the
\* processor of one session, and all three were handed to sendRealtimeInput.
C22_Witness ==
  /\ ev.op = "onaudioprocess"
  /\ frame.captured = 3 /\ Len(frame.sends) = 3
  /\ frame.sends[1].sess = frame.sends[3].sess
  /\ frame.sends[1].n = 1 /\ frame.sends[3].n = 3

====
